---- MODULE Spec2Model ----
(***************************************************************************)
(* Model of the Mermaid syntax fixer (MermaidSyntaxFixer) and of the       *)
(* diagram block that drives it (MermaidBlock).                            *)
(*                                                                         *)
(* Source texts are sequences of one-character strings, so that the        *)
(* deterministic fix is the textual replacement the code performs.  Error  *)
(* texts are sequences of text fragments, so that "contains" is decidable. *)
(***************************************************************************)
EXTENDS Integers, Sequences, FiniteSets, TLC

\* ------------------------------------------------------------ bounds ----

\* Size of the space the request identifiers are drawn from.
MaxIds == 2

\* Executions of autoFixSyntax (render cycles, manual fixes) followed at a time.
MaxProcs == 2

\* Changes of the authored source after the block is mounted.
MaxChanges == 1

\* Steps of the clock from the start of a request to its deadline.
MaxTicks == 3
\* The number of fragments an input of applyDeterministicFixes is made of.
MaxPieces == 3
\* The largest maxRetries a method is wrapped with.
MaxRetries == 3

\* ------------------------------------------------------------- texts ----

\* JavaScript's undefined and null, as values no text is equal to.
Undefined == <<"#undefined">>
Null == <<"#null">>

\* !x for a value that is a string, undefined or null.
Falsy(x) == x = Undefined \/ x = Null \/ x = <<>>

\* x || dflt
OrElse(x, dflt) == IF Falsy(x) THEN dflt ELSE x

\* The regular expression /--&gt;/g and its replacement "-->".
Pat == <<"-", "-", "&", "g", "t", ";">>
Arrow == <<"-", "-", ">">>

\* The positions of text at which part occurs.
Occurrences(text, part) ==
    {i \in 1..(Len(text) - Len(part) + 1) : SubSeq(text, i, i + Len(part) - 1) = part}

\* Mutant: the regular expression has no g flag, only the first occurrence is
\* replaced.
M_applyDeterministicFixes_First(code) ==
    LET occ == Occurrences(code, Pat) IN
    IF occ = {} THEN code
    ELSE LET i == CHOOSE x \in occ : \A y \in occ : x <= y IN
         SubSeq(code, 1, i - 1) \o Arrow \o SubSeq(code, i + Len(Pat), Len(code))

\* Mutant: every &gt; is decoded, whatever precedes it.
RECURSIVE M_applyDeterministicFixes_AnyGt(_)
M_applyDeterministicFixes_AnyGt(code) ==
    IF code = <<>> THEN code
    ELSE IF Len(code) >= 4 /\ SubSeq(code, 1, 4) = <<"&", "g", "t", ";">>
         THEN <<">">> \o M_applyDeterministicFixes_AnyGt(SubSeq(code, 5, Len(code)))
         ELSE <<Head(code)>> \o M_applyDeterministicFixes_AnyGt(Tail(code))

\* code.replace(/--&gt;/g, "-->"): leftmost, non-overlapping, global.
RECURSIVE applyDeterministicFixes(_)
applyDeterministicFixes(code) ==
    IF Len(code) < Len(Pat) THEN code
    ELSE IF SubSeq(code, 1, Len(Pat)) = Pat
         THEN Arrow \o applyDeterministicFixes(SubSeq(code, Len(Pat) + 1, Len(code)))
         ELSE <<Head(code)>> \o applyDeterministicFixes(Tail(code))

\* The texts of the model: "", "A--&gt;B", "A-->B" and "A-B".
sEmpty == <<>>
sEnc == <<"A">> \o Pat \o <<"B">>
sArr == <<"A">> \o Arrow \o <<"B">>
sBad == <<"A", "-", "B">>
Strings == {sEmpty, sEnc, sArr, sBad}

\* Texts a caller may hand to autoFixSyntax, and texts the assistant may return.
Codes == Strings
FixTexts == Strings

\* ------------------------------------------------------- error texts ----

MAX_FIX_ATTEMPTS == 2

\* The deadline of a request, in milliseconds.
FIX_TIMEOUT == 30000

NumStr(n) == CASE n = 0 -> "0" [] n = 1 -> "1" [] n = 2 -> "2" [] n = 3 -> "3"
               [] OTHER -> "n"

ErrParse == <<"Parse error on line 1">>
ErrUnknownSyntax == <<"Unknown syntax error">>
ErrUnknownValidation == <<"Unknown validation error">>
ErrNoFix == <<"LLM failed to provide a fix">>
ErrTimedOut == <<"LLM fix request ", "timed out">>
ErrLLMFixFailed == <<"LLM fix failed">>
ErrHost == <<"Host could not reach the model">>

\* `Failed to fix syntax after ${MAX_FIX_ATTEMPTS} attempts. Last error: ${lastError}`
ErrExhausted(lastError) ==
    <<"Failed to fix syntax after ", NumStr(MAX_FIX_ATTEMPTS), " attempts. Last error: ">>
        \o lastError

\* text.includes(part), for a text made of fragments.
Contains(text, part) ==
    \E i \in 1..(Len(text) - Len(part) + 1) : SubSeq(text, i, i + Len(part) - 1) = part

\* ------------------------------------------------------------- state ----

\* The executions of autoFixSyntax the model follows.
Procs == 1..MaxProcs

VARIABLES
    fixer,      \* fixer[p]: the locals of execution p of autoFixSyntax / fixSyntax
    requests,   \* the calls of requestLLMFix made so far: promise, listener, timer
    outbox,     \* the messages posted to the extension host, in order
    parseMemo,  \* what mermaid.parse answered for each text it was asked about
    log,        \* log[p]: what execution p did, in order (history)
    propCode,   \* MermaidBlock's prop `code`: the authored source
    view,       \* MermaidBlock's state: isLoading, error, isFixing, ...
    svg,        \* what the diagram container shows (Undefined: nothing)
    timer,      \* whether the debounce timer is pending
    task,       \* task[p]: the render cycle or manual fix running in slot p
    renderMemo, \* what mermaid.render answered for each text it was asked about
    epoch,      \* how often the authored source has changed (history)
    cycles,     \* render cycles started since the source last changed (history)
    autoCalls,  \* autoCalls[e]: autoFixSyntax calls by cycles started in epoch e
    autoSent,   \* autoSent[e]: requests posted by those calls
    delivered,  \* the results of autoFixSyntax the block received in the last step
    rawText,    \* a text handed to applyDeterministicFixes on its own
    fixedTexts, \* what applyDeterministicFixes returned for it, and for that again
    retry       \* one call of a method wrapped by withRetry: its locals and history

fvars == <<fixer, requests, outbox, log>>
rvars == <<propCode, view, svg, timer, task, renderMemo, epoch, cycles, autoCalls, autoSent,
           delivered, rawText, fixedTexts, retry>>
vars == <<fixer, requests, outbox, parseMemo, log, propCode, view, svg, timer, task,
          renderMemo, epoch, cycles, autoCalls, autoSent, delivered, rawText, fixedTexts,
          retry>>

\* What mermaid.parse can do with a text: accept it, throw an Error with a
\* message, throw an Error with an empty message, throw something else.
ParseOutcomes == {"ok", "msg", "emptymsg", "nonerror"}

RequestIds == 1..MaxIds

NoResult == [success |-> FALSE, fixedCode |-> Undefined, error |-> Undefined, attempts |-> 0]

IdleFixer ==
    [pc |-> "idle", currentCode |-> Undefined, lastError |-> Undefined,
     bestAttempt |-> Undefined, attempt |-> 0, validating |-> Undefined,
     result |-> NoResult]

\* The part of the state the fixer's code works on, as one value.
Cur == [fixer |-> fixer, requests |-> requests, outbox |-> outbox, log |-> log]

Commit(S) ==
    /\ fixer' = S.fixer
    /\ requests' = S.requests
    /\ outbox' = S.outbox
    /\ log' = S.log

Event(e, code, ok, err, n) == [e |-> e, code |-> code, ok |-> ok, err |-> err, n |-> n]

Logged(S, p, ev) == [S EXCEPT !.log[p] = Append(@, ev)]

\* --------------------------------------------------------- validator ----

\* Mutant: validateSyntax applies the deterministic fixes before parsing.
M_parsedBy(code) == applyDeterministicFixes(code)

\* The text validateSyntax(code) hands to mermaid.parse: code itself.
parsedBy(code) == code

\* Mutant: the catch only handles Error objects; anything else thrown passes
\* as valid.
M_validateSyntax_ErrorsOnly(outcome) ==
    IF outcome \in {"ok", "nonerror"}
    THEN [isValid |-> TRUE, error |-> Undefined]
    ELSE [isValid |-> FALSE,
          error |-> IF outcome = "msg" THEN ErrParse ELSE <<>>]

\* validateSyntax's result for an outcome of mermaid.parse.
validateSyntax(outcome) ==
    IF outcome = "ok"
    THEN [isValid |-> TRUE, error |-> Undefined]
    ELSE [isValid |-> FALSE,
          error |-> CASE outcome = "msg" -> ErrParse
                      [] outcome = "emptymsg" -> <<>>
                      [] OTHER -> ErrUnknownSyntax]

\* Execution p calls validateSyntax(code) and waits for it.
AwaitValidate(S, p, code, pc) ==
    [S EXCEPT !.fixer[p].pc = pc, !.fixer[p].validating = code]

\* ----------------------------------------------------------- channel ----

\* The request execution p made last: the one whose promise it awaits.
Awaited(reqs, p) ==
    LET mine == {r \in 1..Len(reqs) : reqs[r].owner = p} IN
    IF mine = {} THEN 0 ELSE CHOOSE r \in mine : \A x \in mine : x <= r

\* Mutant: the posted message does not carry the number of the attempt.
M_requestLLMFix_NoAttempt(S, p, code, error, attempt, id) ==
    [S EXCEPT
        !.requests = Append(@, [owner |-> p, requestId |-> id, attempt |-> attempt,
                                listening |-> TRUE, timer |-> TRUE, age |-> 0,
                                cleanups |-> 0,
                                state |-> "pending", value |-> Undefined,
                                via |-> "none"]),
        !.outbox = Append(@, [from |-> p, type |-> "fixMermaidSyntax", requestId |-> id,
                              text |-> code,
                              values |-> [error |-> error, attempt |-> 1,
                                          maxAttempts |-> MAX_FIX_ATTEMPTS]]),
        !.fixer[p].pc = "await",
        !.log[p] = Append(@, Event("request", code, TRUE, error, attempt))]

\* requestLLMFix's promise executor: the timer, the listener, the posted message.
\* age is the time since setTimeout while the timer is pending, cleanups the
\* number of times cleanup() ran (history).
requestLLMFix(S, p, code, error, attempt, id) ==
    [S EXCEPT
        !.requests = Append(@, [owner |-> p, requestId |-> id, attempt |-> attempt,
                                listening |-> TRUE, timer |-> TRUE, age |-> 0,
                                cleanups |-> 0,
                                state |-> "pending", value |-> Undefined,
                                via |-> "none"]),
        !.outbox = Append(@, [from |-> p, type |-> "fixMermaidSyntax", requestId |-> id,
                              text |-> code,
                              values |-> [error |-> error, attempt |-> attempt,
                                          maxAttempts |-> MAX_FIX_ATTEMPTS]]),
        !.fixer[p].pc = "await",
        !.log[p] = Append(@, Event("request", code, TRUE, error, attempt))]

\* Mutant: cleanup clears the timer and leaves the listener registered.
M_cleanup(S, r) ==
    [S EXCEPT !.requests[r].timer = FALSE, !.requests[r].cleanups = @ + 1]

\* Mutant: cleanup removes the listener and leaves the timer running.
M_cleanup_KeepTimer(S, r) ==
    [S EXCEPT !.requests[r].listening = FALSE, !.requests[r].cleanups = @ + 1]

\* cleanup(): clearTimeout and removeEventListener.
cleanup(S, r) ==
    [S EXCEPT !.requests[r].listening = FALSE, !.requests[r].timer = FALSE,
              !.requests[r].cleanups = @ + 1]

\* resolve(value) / reject(error): a promise settles once.
settle(S, r, state, value, via) ==
    IF S.requests[r].state = "pending"
    THEN [S EXCEPT !.requests[r].state = state, !.requests[r].value = value,
                   !.requests[r].via = via]
    ELSE S

\* ------------------------------------------------------------- fixer ----

Return(S, p, result) ==
    [S EXCEPT !.fixer[p].pc = "done", !.fixer[p].result = result]

\* Mutant: the loop runs one attempt too many.
M_fixSyntaxLoop(S, p, id) ==
    LET f == S.fixer[p] IN
    IF f.attempt <= MAX_FIX_ATTEMPTS + 1
    THEN requestLLMFix(S, p, f.currentCode, f.lastError, f.attempt, id)
    ELSE Return(S, p, [success |-> FALSE, fixedCode |-> f.bestAttempt,
                       error |-> ErrExhausted(f.lastError),
                       attempts |-> MAX_FIX_ATTEMPTS])

\* Mutant: the return after the loop reports the loop variable, which is one
\* past the last request.
M_fixSyntaxLoop_Count(S, p, id) ==
    LET f == S.fixer[p] IN
    IF f.attempt <= MAX_FIX_ATTEMPTS
    THEN requestLLMFix(S, p, f.currentCode, f.lastError, f.attempt, id)
    ELSE Return(S, p, [success |-> FALSE, fixedCode |-> f.bestAttempt,
                       error |-> ErrExhausted(f.lastError),
                       attempts |-> f.attempt])

\* The head of fixSyntax's for loop: attempt <= MAX_FIX_ATTEMPTS, else the
\* return after the loop.
fixSyntaxLoop(S, p, id) ==
    LET f == S.fixer[p] IN
    IF f.attempt <= MAX_FIX_ATTEMPTS
    THEN requestLLMFix(S, p, f.currentCode, f.lastError, f.attempt, id)
    ELSE Return(S, p, [success |-> FALSE, fixedCode |-> f.bestAttempt,
                       error |-> ErrExhausted(f.lastError),
                       attempts |-> MAX_FIX_ATTEMPTS])

\* fixSyntax(originalCode, error), up to its first await.
fixSyntax(S, p, originalCode, error, id) ==
    fixSyntaxLoop([S EXCEPT !.fixer[p].currentCode = originalCode,
                            !.fixer[p].lastError = error,
                            !.fixer[p].bestAttempt = originalCode,
                            !.fixer[p].attempt = 1], p, id)

\* Mutant: the correction is not recorded as the best attempt.
M_fixSyntaxResolved_NoBest(S, p, fixedCode) ==
    LET f == S.fixer[p] IN
    IF Falsy(fixedCode)
    THEN Return(S, p, [success |-> FALSE, fixedCode |-> f.bestAttempt,
                       error |-> ErrNoFix, attempts |-> f.attempt])
    ELSE AwaitValidate(S, p, fixedCode, "validate")

\* Mutant: the outcome for a missing fix carries no fixedCode.
M_fixSyntaxResolved_NoCode(S, p, fixedCode) ==
    LET f == S.fixer[p] IN
    IF Falsy(fixedCode)
    THEN Return(S, p, [success |-> FALSE, fixedCode |-> Undefined,
                       error |-> ErrNoFix, attempts |-> f.attempt])
    ELSE AwaitValidate([S EXCEPT !.fixer[p].bestAttempt = fixedCode],
                       p, fixedCode, "validate")

\* fixSyntax after requestLLMFix resolved with fixedCode.
fixSyntaxResolved(S, p, fixedCode) ==
    LET f == S.fixer[p] IN
    IF Falsy(fixedCode)
    THEN Return(S, p, [success |-> FALSE, fixedCode |-> f.bestAttempt,
                       error |-> ErrNoFix, attempts |-> f.attempt])
    ELSE AwaitValidate([S EXCEPT !.fixer[p].bestAttempt = fixedCode],
                       p, fixedCode, "validate")

\* Mutant: the catch reports a fixed text instead of the rejection's message.
M_fixSyntaxRejected(S, p, message) ==
    LET f == S.fixer[p] IN
    Return(S, p, [success |-> FALSE, fixedCode |-> f.bestAttempt,
                  error |-> <<"Fix request failed">>, attempts |-> f.attempt])

\* Mutant: fixSyntax has no catch, so the rejection leaves autoFixSyntax.
M_fixSyntaxRejected_Uncaught(S, p, message) ==
    [S EXCEPT !.fixer[p].pc = "rejected", !.fixer[p].lastError = message]

\* fixSyntax's catch: requestLLMFix rejected with new Error(message).
fixSyntaxRejected(S, p, message) ==
    LET f == S.fixer[p] IN
    Return(S, p, [success |-> FALSE, fixedCode |-> f.bestAttempt,
                  error |-> message, attempts |-> f.attempt])

\* Mutant: success reports the code that was sent, not the validated correction.
M_fixSyntaxValidated_Stale(S, p, validation, id) ==
    LET f == S.fixer[p] IN
    IF validation.isValid
    THEN Return(S, p, [success |-> TRUE, fixedCode |-> f.currentCode,
                       error |-> Undefined, attempts |-> f.attempt])
    ELSE fixSyntaxLoop([S EXCEPT !.fixer[p].currentCode = f.validating,
                                 !.fixer[p].lastError =
                                     OrElse(validation.error, ErrUnknownValidation),
                                 !.fixer[p].attempt = f.attempt + 1], p, id)

\* Mutant: the validity test is inverted.
M_fixSyntaxValidated_Inverted(S, p, validation, id) ==
    LET f == S.fixer[p] IN
    IF ~validation.isValid
    THEN Return(S, p, [success |-> TRUE, fixedCode |-> f.validating,
                       error |-> Undefined, attempts |-> f.attempt])
    ELSE fixSyntaxLoop([S EXCEPT !.fixer[p].currentCode = f.validating,
                                 !.fixer[p].lastError =
                                     OrElse(validation.error, ErrUnknownValidation),
                                 !.fixer[p].attempt = f.attempt + 1], p, id)

\* Mutant: the error of the failed validation is not kept for the next attempt.
M_fixSyntaxValidated_NoLastError(S, p, validation, id) ==
    LET f == S.fixer[p] IN
    IF validation.isValid
    THEN Return(S, p, [success |-> TRUE, fixedCode |-> f.validating,
                       error |-> Undefined, attempts |-> f.attempt])
    ELSE fixSyntaxLoop([S EXCEPT !.fixer[p].currentCode = f.validating,
                                 !.fixer[p].attempt = f.attempt + 1], p, id)

\* fixSyntax after validateSyntax(fixedCode) returned.
fixSyntaxValidated(S, p, validation, id) ==
    LET f == S.fixer[p] IN
    IF validation.isValid
    THEN Return(S, p, [success |-> TRUE, fixedCode |-> f.validating,
                       error |-> Undefined, attempts |-> f.attempt])
    ELSE fixSyntaxLoop([S EXCEPT !.fixer[p].currentCode = f.validating,
                                 !.fixer[p].lastError =
                                     OrElse(validation.error, ErrUnknownValidation),
                                 !.fixer[p].attempt = f.attempt + 1], p, id)

\* Mutant: the code is validated without the deterministic pass.
M_autoFixSyntax(S, p, code) ==
    AwaitValidate([S EXCEPT !.fixer[p] = IdleFixer,
                            !.log[p] = <<Event("call", code, TRUE, Undefined, 0)>>],
                  p, code, "validate0")

\* autoFixSyntax(code), up to its await of validateSyntax.
autoFixSyntax(S, p, code) ==
    AwaitValidate([S EXCEPT !.fixer[p] = IdleFixer,
                            !.log[p] = <<Event("call", code, TRUE, Undefined, 0)>>],
                  p, applyDeterministicFixes(code), "validate0")

\* autoFixSyntax after validateSyntax(deterministicallyFixedCode) returned.
autoFixSyntaxValidated(S, p, validation, id) ==
    LET f == S.fixer[p] IN
    IF validation.isValid
    THEN Return(S, p, [success |-> TRUE, fixedCode |-> f.validating,
                       error |-> Undefined, attempts |-> 0])
    ELSE fixSyntax(S, p, f.validating, OrElse(validation.error, ErrUnknownSyntax), id)

\* Execution p resumes after its validateSyntax call answered `outcome`.
Validated(S, p, outcome, id) ==
    LET f == S.fixer[p]
        validation == validateSyntax(outcome)
        S1 == Logged(S, p, Event("validate", f.validating, validation.isValid,
                                 validation.error, f.attempt))
    IN  IF f.pc = "validate0"
        THEN autoFixSyntaxValidated(S1, p, validation, id)
        ELSE fixSyntaxValidated(S1, p, validation, id)

\* The continuation of the execution awaiting request r, once r has settled.
Resume(S, r) ==
    LET q == S.requests[r]
        p == q.owner
        f == S.fixer[p]
    IN  IF f.pc = "await" /\ Awaited(S.requests, p) = r /\ q.state # "pending"
        THEN IF q.state = "resolved"
             THEN fixSyntaxResolved(
                      Logged(S, p, Event("resolve", q.value, TRUE, Undefined, q.attempt)),
                      p, q.value)
             ELSE fixSyntaxRejected(
                      Logged(S, p, Event("reject", Undefined, FALSE, q.value, q.attempt)),
                      p, q.value)
        ELSE S

\* Mutant: the timeout callback releases the request without rejecting it.
M_onTimeout(S, r) == cleanup(S, r)

\* Mutant: the timeout callback does nothing; the request goes on waiting for a
\* response.
M_onTimeout_NoReject(S, r) == [S EXCEPT !.requests[r].timer = FALSE]

\* The setTimeout callback of request r.
onTimeout(S, r) ==
    Resume(settle(cleanup(S, r), r, "rejected", ErrTimedOut, "timeout"), r)

\* Mutant: the listener resolves with fixedCode whatever the success flag.
M_messageListener_Resolve(S, r, message) ==
    IF message.type = "mermaidFixResponse" /\ message.requestId = S.requests[r].requestId
    THEN Resume(settle(cleanup(S, r), r, "resolved", message.fixedCode, "response"), r)
    ELSE S

\* Mutant: the listener does not compare the requestId.
M_messageListener_AnyId(S, r, message) ==
    IF message.type = "mermaidFixResponse"
    THEN LET S1 == cleanup(S, r) IN
         IF message.success
         THEN Resume(settle(S1, r, "resolved", message.fixedCode, "response"), r)
         ELSE Resume(settle(S1, r, "rejected",
                            OrElse(message.error, ErrLLMFixFailed), "response"), r)
    ELSE S

\* messageListener of request r, called with a message event.
messageListener(S, r, message) ==
    IF message.type = "mermaidFixResponse" /\ message.requestId = S.requests[r].requestId
    THEN LET S1 == cleanup(S, r) IN
         IF message.success
         THEN Resume(settle(S1, r, "resolved", message.fixedCode, "response"), r)
         ELSE Resume(settle(S1, r, "rejected",
                            OrElse(message.error, ErrLLMFixFailed), "response"), r)
    ELSE S

\* window dispatches a message event to the listeners registered when it arrives.
RECURSIVE dispatch(_, _, _)
dispatch(S, rs, message) ==
    IF rs = <<>> THEN S
    ELSE LET r == Head(rs)
             S1 == IF S.requests[r].listening THEN messageListener(S, r, message) ELSE S
         IN dispatch(S1, Tail(rs), message)

\* The indexes 1..n as a sequence.
Indexes(n) == [i \in 1..n |-> i]

\* The messages the window may receive: answers carrying one of `texts` or no
\* text, refusals carrying one of `errors`, and messages of another type.
MessagesOf(texts, errors) ==
    {[type |-> "mermaidFixResponse", requestId |-> i, success |-> TRUE,
      fixedCode |-> c, error |-> Undefined] : i \in RequestIds, c \in texts \cup {Undefined}}
    \cup
    {[type |-> "mermaidFixResponse", requestId |-> i, success |-> FALSE,
      fixedCode |-> Undefined, error |-> e] : i \in RequestIds, e \in errors}
    \cup
    {[type |-> "theme", requestId |-> i, success |-> TRUE,
      fixedCode |-> Undefined, error |-> Undefined] : i \in RequestIds}

Messages == MessagesOf(FixTexts, {Undefined, ErrHost})

\* mermaid.parse answers the same for the same text.
Oracle(code, outcome) ==
    /\ parseMemo[code] \in {"?", outcome}
    /\ parseMemo' = [parseMemo EXCEPT ![code] = outcome]

\* ------------------------------------------------------ MermaidBlock ----

ErrRender == <<"Could not render the diagram">>
ErrRenderDefault == <<"Failed to render Mermaid diagram">>
ErrManualDefault == <<"Failed to fix Mermaid syntax">>

\* What mermaid.render can do with a text that parsed.
RenderOutcomes == {"ok", "msg", "nonerror"}

\* err instanceof Error ? err.message : "Failed to render Mermaid diagram"
errorMessage(outcome) ==
    CASE outcome = "msg" -> ErrParse
      [] outcome = "emptymsg" -> <<>>
      [] outcome = "rendermsg" -> ErrRender
      [] OTHER -> ErrRenderDefault

NoTask ==
    [kind |-> "none", pc |-> "none", currentCode |-> Undefined, code |-> Undefined,
     hasAutoFixed |-> FALSE, isFixing |-> FALSE, errorMessage |-> Undefined, epoch |-> 0]

\* The part of the state the block's code works on, as one value.
CurR ==
    [code |-> propCode, view |-> view, svg |-> svg, timer |-> timer, task |-> task,
     epoch |-> epoch, cycles |-> cycles, autoCalls |-> autoCalls, autoSent |-> autoSent,
     delivered |-> <<>>]

\* The counts of an epoch are kept while a cycle started in it can still act.
Counted(R, e, n) ==
    IF e = R.epoch \/ \E p \in Procs : R.task[p].kind = "cycle" /\ R.task[p].epoch = e
    THEN n ELSE 0

CommitR(R) ==
    /\ propCode' = R.code
    /\ view' = R.view
    /\ svg' = R.svg
    /\ timer' = R.timer
    /\ task' = R.task
    /\ cycles' = R.cycles
    /\ epoch' = R.epoch
    /\ autoCalls' = [e \in DOMAIN R.autoCalls |-> Counted(R, e, R.autoCalls[e])]
    /\ autoSent' = [e \in DOMAIN R.autoSent |-> Counted(R, e, R.autoSent[e])]
    /\ delivered' = R.delivered
    /\ UNCHANGED <<rawText, fixedTexts, retry>>

\* useDebounceEffect(renderMermaid, 500, [currentCode]): a render that changes
\* currentCode (re)starts the timer; the timer runs the callback of the latest
\* render.
debounce(R, newView) == IF newView.currentCode # R.view.currentCode THEN TRUE ELSE R.timer

\* The state updates of one step are committed together.  The diagram container
\* is rendered only while error is falsy, so its content is lost when an error
\* appears.
setState(R, newView) ==
    [R EXCEPT !.view = newView,
              !.timer = debounce(R, newView),
              !.svg = IF Falsy(newView.error) THEN R.svg ELSE Undefined]

\* Mutant: the effect on [code] does not set currentCode.
M_onCodeChange(R, c) ==
    setState([R EXCEPT !.code = c, !.cycles = 0, !.epoch = R.epoch + 1],
             [R.view EXCEPT !.isLoading = TRUE, !.error = Null,
                            !.hasAutoFixed = FALSE, !.fixAttempts = 0])

\* Mutant: the effect on [code] keeps the auto-fixed flag and the attempt count.
M_onCodeChange_KeepFlag(R, c) ==
    setState([R EXCEPT !.code = c, !.cycles = 0, !.epoch = R.epoch + 1],
             [R.view EXCEPT !.isLoading = TRUE, !.error = Null, !.currentCode = c])

\* The effect on [code]: the authored source changed.
onCodeChange(R, c) ==
    setState([R EXCEPT !.code = c, !.cycles = 0, !.epoch = R.epoch + 1],
             [R.view EXCEPT !.isLoading = TRUE, !.error = Null, !.currentCode = c,
                            !.hasAutoFixed = FALSE, !.fixAttempts = 0])

\* A slot for one more render cycle or manual fix.
FreeSlots(R) == {p \in Procs : R.task[p].kind = "none"}
FreeSlot(R) == CHOOSE p \in FreeSlots(R) : \A q \in FreeSlots(R) : p <= q

\* renderMermaid(), up to its await of mermaid.parse: the closure of the latest
\* render, and the container emptied.
renderMermaid(R, p) ==
    [R EXCEPT !.timer = FALSE,
              !.svg = Undefined,
              !.cycles = IF @ < 2 THEN @ + 1 ELSE @,
              !.task[p] = [kind |-> "cycle", pc |-> "parse",
                           currentCode |-> R.view.currentCode, code |-> R.code,
                           hasAutoFixed |-> R.view.hasAutoFixed,
                           isFixing |-> R.view.isFixing,
                           errorMessage |-> Undefined, epoch |-> R.epoch]]

\* Mutant: the cycle asks for a fix whenever none is in flight.
M_shouldAutoFix(t) == ~t.isFixing

\* !hasAutoFixed && currentCode === code && !isFixing, in the cycle's closure.
shouldAutoFix(t) == ~t.hasAutoFixed /\ t.currentCode = t.code /\ ~t.isFixing

\* renderMermaid's outer finally: if (!isFixing) setIsLoading(false).
cycleFinally(t, v) == IF ~t.isFixing THEN [v EXCEPT !.isLoading = FALSE] ELSE v

\* renderMermaid after mermaid.render returned an svg.
renderSucceeded(R, p) ==
    LET t == R.task[p]
        R1 == [R EXCEPT !.svg = IF Falsy(R.view.error) THEN t.currentCode ELSE R.svg,
                        !.task[p] = NoTask]
    IN  setState(R1, cycleFinally(t, [R.view EXCEPT !.error = Null]))

\* renderMermaid's catch when no fix is asked for: setError(errorMessage).
renderFailedNoFix(R, p, message) ==
    LET t == R.task[p] IN
    setState([R EXCEPT !.task[p] = NoTask],
             cycleFinally(t, [R.view EXCEPT !.error = message]))

\* renderMermaid's catch when a fix is asked for: setIsFixing(true), then the
\* await of autoFixSyntax.
renderFailedFix(R, p, message) ==
    LET t == R.task[p] IN
    setState([R EXCEPT !.task[p].pc = "fix", !.task[p].errorMessage = message,
                       !.autoCalls[t.epoch] = IF @ < 2 THEN @ + 1 ELSE @],
             [R.view EXCEPT !.isFixing = TRUE])

\* The block receives fixResult from the autoFixSyntax call of task t (history):
\* the result, the view it reaches and what the task had captured.
Received(R, t, fixResult) ==
    [R EXCEPT !.delivered = Append(@, [kind |-> t.kind, result |-> fixResult,
                                       before |-> R.view,
                                       started |-> t.currentCode,
                                       errorMessage |-> t.errorMessage])]

\* Mutant: a successful fix marks the block auto-fixed but does not replace the
\* candidate.
M_cycleFixed_NoCandidate(R, p, fixResult) ==
    LET t == R.task[p]
        R1 == [Received(R, t, fixResult) EXCEPT !.task[p] = NoTask]
    IN  IF fixResult.success /\ ~Falsy(fixResult.fixedCode)
           /\ fixResult.fixedCode # t.currentCode
        THEN setState(R1, cycleFinally(t,
                 [R.view EXCEPT !.hasAutoFixed = TRUE,
                                !.fixAttempts = fixResult.attempts,
                                !.isFixing = FALSE]))
        ELSE setState(R1, cycleFinally(t,
                 [R.view EXCEPT !.error = t.errorMessage, !.isFixing = FALSE]))

\* renderMermaid after autoFixSyntax returned fixResult.
cycleFixed(R, p, fixResult) ==
    LET t == R.task[p]
        R1 == [Received(R, t, fixResult) EXCEPT !.task[p] = NoTask]
    IN  IF fixResult.success /\ ~Falsy(fixResult.fixedCode)
           /\ fixResult.fixedCode # t.currentCode
        THEN setState(R1, cycleFinally(t,
                 [R.view EXCEPT !.currentCode = fixResult.fixedCode,
                                !.hasAutoFixed = TRUE,
                                !.fixAttempts = fixResult.attempts,
                                !.isFixing = FALSE]))
        ELSE setState(R1, cycleFinally(t,
                 [R.view EXCEPT !.error = t.errorMessage, !.isFixing = FALSE]))

\* A handler that hands autoFixSyntax an empty text instead.
M_manualFixInput(R) == sEmpty

\* The argument handleManualFix gives autoFixSyntax: the code prop.
manualFixInput(R) == R.code

\* handleManualFix(), up to its await of autoFixSyntax.
handleManualFix(R, p) ==
    setState([R EXCEPT !.task[p] = [NoTask EXCEPT !.kind = "manual", !.pc = "fix",
                                                  !.code = R.code,
                                                  !.isFixing = R.view.isFixing]],
             [R.view EXCEPT !.isFixing = TRUE, !.error = Null])

\* handleManualFix after autoFixSyntax returned fixResult.
manualFixed(R, p, fixResult) ==
    LET R1 == [Received(R, R.task[p], fixResult) EXCEPT !.task[p] = NoTask] IN
    IF fixResult.success /\ ~Falsy(fixResult.fixedCode)
    THEN setState(R1, [R.view EXCEPT !.currentCode = fixResult.fixedCode,
                                     !.hasAutoFixed = TRUE,
                                     !.fixAttempts = fixResult.attempts,
                                     !.isFixing = FALSE])
    ELSE setState(R1, [R.view EXCEPT !.error = OrElse(fixResult.error, ErrManualDefault),
                                     !.isFixing = FALSE])

\* The records of execution p are dropped when its caller has its result.
Forget(S, p) ==
    LET NotMine(x) == x.owner # p
        NotFrom(m) == m.from # p
    IN  [S EXCEPT !.fixer[p] = IdleFixer, !.log[p] = <<>>,
                  !.requests = SelectSeq(@, NotMine),
                  !.outbox = SelectSeq(@, NotFrom)]

\* The messages execution p has posted.
Posted(S, p) == Cardinality({i \in 1..Len(S.outbox) : S.outbox[i].from = p})

\* The callers of the executions that have returned resume, in slot order.
RECURSIVE resumeCallers(_, _, _)
resumeCallers(S, R, p) ==
    IF p > MaxProcs THEN [S |-> S, R |-> R]
    ELSE IF R.task[p].pc = "fix" /\ S.fixer[p].pc = "done"
         THEN resumeCallers(Forget(S, p),
                            IF R.task[p].kind = "cycle"
                            THEN cycleFixed(R, p, S.fixer[p].result)
                            ELSE manualFixed(R, p, S.fixer[p].result),
                            p + 1)
         ELSE resumeCallers(S, R, p + 1)

\* The requests the cycles' executions posted in a step from S0 to S1.
RECURSIVE countSent(_, _, _, _)
countSent(S0, S1, R, p) ==
    IF p > MaxProcs THEN R
    ELSE LET n == Posted(S1, p) - Posted(S0, p)
             e == R.task[p].epoch
         IN countSent(S0, S1,
                      IF R.task[p].kind = "cycle" /\ n > 0
                      THEN [R EXCEPT !.autoSent[e] = IF @ <= MAX_FIX_ATTEMPTS THEN @ + n ELSE @]
                      ELSE R,
                      p + 1)

\* The block is followed without the history of its executions: the log, the
\* posted messages once counted, and the requests that have settled and
\* released their listener and timer (nothing reads them again).
Trimmed(S) ==
    LET Live(x) == x.state = "pending" \/ x.listening \/ x.timer IN
    [S EXCEPT !.log = [p \in Procs |-> <<>>],
              !.outbox = <<>>,
              !.requests = SelectSeq(@, Live)]

\* A step of the fixer's code inside the block: S1 is the fixer's state after it.
FixerStep(S1, R0) ==
    LET both == resumeCallers(S1, countSent(Cur, S1, R0, 1), 1) IN
    /\ Commit(Trimmed(both.S))
    /\ CommitR(both.R)

\* mermaid.render answers the same for the same text.
RenderOracle(text, outcome) ==
    /\ renderMemo[text] \in {"?", outcome}
    /\ renderMemo' = [renderMemo EXCEPT ![text] = outcome]

\* --------------------------------------------------------- withRetry ----

\* What the wrapped operation can throw, and shouldRetry's answer for it.
Transient == <<"transient">>
Fatal == <<"fatal">>
RetryErrors == {Transient, Fatal}
shouldRetry(error) == error = Transient

\* What the wrapped operation can return.
RetryValues == {<<"value">>}

\* Math.pow(2, i)
RECURSIVE Pow2(_)
Pow2(i) == IF i <= 0 THEN 1 ELSE 2 * Pow2(i - 1)

\* The locals of the wrapper: pc is "idle", "call" (awaiting originalMethod),
\* "sleep", "returned" or "threw"; calls, errors and slept are history.
IdleRetry ==
    [pc |-> "idle", maxRetries |-> 0, delayMs |-> 0, hasShouldRetry |-> FALSE, i |-> 0,
     calls |-> 0, errors |-> <<>>, slept |-> <<>>, result |-> Undefined,
     thrown |-> Undefined]

\* for (let i = 0; i < maxRetries; i++): the call of originalMethod, or the end
\* of the async function, which resolves with undefined.
retryLoop(w) ==
    IF w.i < w.maxRetries
    THEN [w EXCEPT !.pc = "call"]
    ELSE [w EXCEPT !.pc = "returned", !.result = Undefined]

\* The wrapped method is called.
withRetry(maxRetries, delayMs, hasShouldRetry) ==
    retryLoop([IdleRetry EXCEPT !.maxRetries = maxRetries, !.delayMs = delayMs,
                                !.hasShouldRetry = hasShouldRetry])

\* return await originalMethod.apply(this, args)
originalReturned(w, value) ==
    [w EXCEPT !.pc = "returned", !.result = value, !.calls = @ + 1]

\* Mutant: the catch does not consult shouldRetry.
M_originalThrew_NoPredicate(w, error) ==
    LET w1 == [w EXCEPT !.calls = @ + 1, !.errors = Append(@, error)] IN
    IF w.i < w.maxRetries - 1
    THEN [w1 EXCEPT !.pc = "sleep", !.slept = Append(@, w.delayMs * Pow2(w.i))]
    ELSE [w1 EXCEPT !.pc = "threw", !.thrown = error]

\* The catch: originalMethod threw error.
originalThrew(w, error) ==
    LET w1 == [w EXCEPT !.calls = @ + 1, !.errors = Append(@, error)] IN
    IF w.hasShouldRetry /\ ~shouldRetry(error)
    THEN [w1 EXCEPT !.pc = "threw", !.thrown = error]
    ELSE IF w.i < w.maxRetries - 1
         THEN [w1 EXCEPT !.pc = "sleep",
                         !.slept = Append(@, w.delayMs * Pow2(w.i))]
         ELSE [w1 EXCEPT !.pc = "threw", !.thrown = error]

\* sleep(...) resolved: i++ and the loop's test.
sleepResolved(w) == retryLoop([w EXCEPT !.i = @ + 1])

\* ------------------------------------------------- one caller (Spec) ----

Caller == CHOOSE p \in Procs : \A q \in Procs : p <= q

InitFixer ==
    /\ fixer = [p \in Procs |-> IdleFixer]
    /\ requests = <<>>
    /\ outbox = <<>>
    /\ parseMemo = [s \in Strings |-> "?"]
    /\ log = [p \in Procs |-> <<>>]

\* The block mounted with a source: the effect on [code] has run and the
\* debounce timer is pending.
InitBlock(c) ==
    /\ propCode = c
    /\ view = [isLoading |-> TRUE, error |-> Null, isFixing |-> FALSE,
               fixAttempts |-> 0, currentCode |-> c, hasAutoFixed |-> FALSE]
    /\ svg = Undefined
    /\ timer = TRUE
    /\ task = [p \in Procs |-> NoTask]
    /\ renderMemo = [s \in Strings |-> "?"]
    /\ epoch = 0
    /\ cycles = 0
    /\ autoCalls = [e \in 0..MaxChanges |-> 0]
    /\ autoSent = [e \in 0..MaxChanges |-> 0]
    /\ delivered = <<>>

\* applyDeterministicFixes is not followed on its own.
NoText == rawText = <<>> /\ fixedTexts = <<>>

\* No wrapped method is called.
NoRetry == retry = IdleRetry

Init == InitFixer /\ InitBlock(sEmpty) /\ NoText /\ NoRetry

\* A caller invokes autoFixSyntax(code).
FxCall ==
    \E c \in Codes :
        /\ fixer[Caller].pc = "idle"
        /\ Commit(autoFixSyntax(Cur, Caller, c))
        /\ UNCHANGED <<parseMemo, rvars>>

\* A validateSyntax call of the execution returns.
FxValidated ==
    \E outcome \in ParseOutcomes, id \in RequestIds :
        /\ fixer[Caller].pc \in {"validate0", "validate"}
        /\ Oracle(parsedBy(fixer[Caller].validating), outcome)
        /\ Commit(Validated(Cur, Caller, outcome, id))
        /\ UNCHANGED rvars

\* The timeout of a request fires.
FxTimeout ==
    \E r \in 1..Len(requests) :
        /\ requests[r].timer
        /\ Commit(onTimeout(Cur, r))
        /\ UNCHANGED <<parseMemo, rvars>>

\* A message arrives at the window.
FxDeliver ==
    \E message \in Messages :
        /\ Commit(dispatch(Cur, Indexes(Len(requests)), message))
        /\ UNCHANGED <<parseMemo, rvars>>

Next == FxCall \/ FxValidated \/ FxTimeout \/ FxDeliver

Spec == Init /\ [][Next]_vars

\* ------------------------------------- one caller, timed (SpecTimed) ----

\* The step of the clock, in milliseconds.
Quantum == FIX_TIMEOUT \div MaxTicks

\* setTimeout(..., FIX_TIMEOUT): the timer of request r has run out.
Due(r) == requests[r].timer /\ requests[r].age >= FIX_TIMEOUT

\* Time passes for the pending timers.  A timer that has run out fires before
\* time passes further.
Tick ==
    /\ \E r \in 1..Len(requests) : requests[r].timer
    /\ \A r \in 1..Len(requests) : ~Due(r)
    /\ requests' = [r \in 1..Len(requests) |->
                       IF requests[r].timer
                       THEN [requests[r] EXCEPT !.age = @ + Quantum]
                       ELSE requests[r]]
    /\ UNCHANGED <<fixer, outbox, log, parseMemo, rvars>>

\* The timeout of a request fires, at its deadline.
TxTimeout ==
    \E r \in 1..Len(requests) :
        /\ Due(r)
        /\ Commit(onTimeout(Cur, r))
        /\ UNCHANGED <<parseMemo, rvars>>

TNext == FxCall \/ FxValidated \/ TxTimeout \/ FxDeliver \/ Tick

SpecTimed == Init /\ [][TNext]_vars

\* ------------------------------------------- the block (SpecRender) ----

\* The authored sources, the assistant's texts and the parser's answers the
\* block is followed with: "A--&gt;B" and "A-B" as sources, "A--&gt;B" and
\* "A-->B" as corrections.
BlockCodes == {sEnc, sBad}
BlockFixTexts == {sEnc, sArr}
BlockParseOutcomes == {"ok", "msg"}
BlockRenderOutcomes == {"ok", "msg"}
BlockMessages == MessagesOf(BlockFixTexts, {Undefined})

\* Request identifiers matter only by being equal or not: a new request draws
\* one that a registered listener waits for, or the least that none waits for.
IdChoices ==
    LET used == {requests[r].requestId : r \in {x \in 1..Len(requests) : requests[x].listening}}
        free == RequestIds \ used
    IN  used \cup (IF free = {} THEN {} ELSE {CHOOSE i \in free : \A j \in free : i <= j})

RInit == InitFixer /\ NoText /\ NoRetry /\ \E c \in BlockCodes : InitBlock(c)

\* The authored source changes.
RSourceChange ==
    \E c \in BlockCodes \ {propCode} :
        /\ epoch < MaxChanges
        /\ CommitR(onCodeChange(CurR, c))
        /\ UNCHANGED <<fvars, parseMemo, renderMemo>>

\* The debounce timer fires: a render cycle starts.
RDebounceFire ==
    /\ timer
    /\ FreeSlots(CurR) # {}
    /\ CommitR(renderMermaid(CurR, FreeSlot(CurR)))
    /\ UNCHANGED <<fvars, parseMemo, renderMemo>>

\* mermaid.parse(currentCode) of a render cycle returns.
RParsed ==
    \E p \in Procs, outcome \in BlockParseOutcomes :
        /\ task[p].kind = "cycle" /\ task[p].pc = "parse"
        /\ Oracle(task[p].currentCode, outcome)
        /\ IF outcome = "ok"
           THEN /\ CommitR([CurR EXCEPT !.task[p].pc = "render"])
                /\ UNCHANGED fvars
           ELSE IF shouldAutoFix(task[p])
                THEN FixerStep(autoFixSyntax(Cur, p, task[p].currentCode),
                               renderFailedFix(CurR, p, errorMessage(outcome)))
                ELSE /\ CommitR(renderFailedNoFix(CurR, p, errorMessage(outcome)))
                     /\ UNCHANGED fvars
        /\ UNCHANGED renderMemo

\* mermaid.render(id, currentCode) of a render cycle returns.
RRendered ==
    \E p \in Procs, outcome \in BlockRenderOutcomes :
        /\ task[p].kind = "cycle" /\ task[p].pc = "render"
        /\ RenderOracle(task[p].currentCode, outcome)
        /\ LET message == errorMessage(IF outcome = "msg" THEN "rendermsg" ELSE outcome) IN
           IF outcome = "ok"
           THEN /\ CommitR(renderSucceeded(CurR, p))
                /\ UNCHANGED fvars
           ELSE IF shouldAutoFix(task[p])
                THEN FixerStep(autoFixSyntax(Cur, p, task[p].currentCode),
                               renderFailedFix(CurR, p, message))
                ELSE /\ CommitR(renderFailedNoFix(CurR, p, message))
                     /\ UNCHANGED fvars
        /\ UNCHANGED parseMemo

\* The user clicks the fix button, shown with the error while the block is not
\* auto-fixed and enabled while no fix is in flight.
RManualFix ==
    /\ ~Falsy(view.error) /\ ~view.hasAutoFixed /\ ~view.isFixing
    /\ FreeSlots(CurR) # {}
    /\ LET p == FreeSlot(CurR) IN
       FixerStep(autoFixSyntax(Cur, p, manualFixInput(CurR)), handleManualFix(CurR, p))
    /\ UNCHANGED <<parseMemo, renderMemo>>

\* A validateSyntax call of an execution returns.
RValidated ==
    \E p \in Procs, outcome \in BlockParseOutcomes, id \in IdChoices :
        /\ fixer[p].pc \in {"validate0", "validate"}
        /\ Oracle(parsedBy(fixer[p].validating), outcome)
        /\ FixerStep(Validated(Cur, p, outcome, id), CurR)
        /\ UNCHANGED renderMemo

\* The timeout of a request fires.
RTimeout ==
    \E r \in 1..Len(requests) :
        /\ requests[r].timer
        /\ FixerStep(onTimeout(Cur, r), CurR)
        /\ UNCHANGED <<parseMemo, renderMemo>>

\* A message arrives at the window.
RDeliver ==
    \E message \in BlockMessages :
        /\ FixerStep(dispatch(Cur, Indexes(Len(requests)), message), CurR)
        /\ UNCHANGED <<parseMemo, renderMemo>>

RNext ==
    \/ RSourceChange \/ RDebounceFire \/ RParsed \/ RRendered \/ RManualFix
    \/ RValidated \/ RTimeout \/ RDeliver

SpecRender == RInit /\ [][RNext]_vars

\* ------------------------------------------------ claims on the fixer ----

Done(p) == fixer[p].pc = "done"
Res(p) == fixer[p].result

\* The positions of execution p's log that hold an event of kind e.
EventsOf(p, e) == {i \in 1..Len(log[p]) : log[p][i].e = e}

Max(S) == CHOOSE x \in S : \A y \in S : y <= x

\* The text execution p handed to the validator last.
LastValidated(p) == log[p][Max(EventsOf(p, "validate"))]

\* The text execution p was called with.
CalledWith(p) == log[p][1].code

\* C1: every outcome of autoFixSyntax has 0 <= attempts <= MAX_FIX_ATTEMPTS.
C1_AttemptBound ==
    \A p \in Procs : Done(p) => Res(p).attempts \in 0..MAX_FIX_ATTEMPTS

\* C1: an outcome with attempts = 0 is reached.
C1_Witness == Done(Caller) /\ Res(Caller).attempts = 0

\* C2: every outcome's fixedCode is a fixed point of applyDeterministicFixes
\* (it holds no "--&gt;").
C2_Normalized ==
    \A p \in Procs :
        Done(p) => Res(p).fixedCode = applyDeterministicFixes(Res(p).fixedCode)

\* C3 as stated: on success = false, fixedCode is non-empty and is the last text
\* handed to the validator.
C3_BestEffortNonEmpty ==
    \A p \in Procs :
        (Done(p) /\ ~Res(p).success) =>
            /\ ~Falsy(Res(p).fixedCode)
            /\ Res(p).fixedCode = LastValidated(p).code

\* C3 amended: on success = false, fixedCode is populated and is the last text
\* handed to the validator in that call; it is non-empty whenever the code
\* autoFixSyntax was called with is non-empty.
C3_BestEffort ==
    \A p \in Procs :
        (Done(p) /\ ~Res(p).success) =>
            /\ Res(p).fixedCode \notin {Undefined, Null}
            /\ Res(p).fixedCode = LastValidated(p).code
            /\ (CalledWith(p) # <<>> => Res(p).fixedCode # <<>>)

\* C3: a failed outcome after a correction that differs from the first candidate.
C3_Witness ==
    /\ Done(Caller) /\ ~Res(Caller).success
    /\ Cardinality(EventsOf(Caller, "validate")) >= 2
    /\ Res(Caller).fixedCode # log[Caller][2].code
    /\ CalledWith(Caller) # <<>>

\* C4: success = true only if the most recent validator call was made on exactly
\* the returned fixedCode and answered valid.
C4_SuccessSound ==
    \A p \in Procs :
        (Done(p) /\ Res(p).success) =>
            /\ LastValidated(p).ok
            /\ LastValidated(p).code = Res(p).fixedCode

\* C4: a successful outcome that took a correction.
C4_Witness ==
    /\ Done(Caller) /\ Res(Caller).success /\ Res(Caller).attempts >= 1
    /\ Res(Caller).fixedCode # log[Caller][2].code

\* The requests of execution p that have not settled.
Outstanding(p) ==
    {r \in 1..Len(requests) : requests[r].owner = p /\ requests[r].state = "pending"}

\* C6: an execution has at most one request outstanding, and request k+1 is sent
\* right after the correction that request k returned was validated and found
\* invalid.
C6_Sequential ==
    \A p \in Procs :
        /\ Cardinality(Outstanding(p)) <= 1
        /\ \A i \in EventsOf(p, "request") :
               log[p][i].n >= 2 =>
                   /\ log[p][i - 1].e = "validate" /\ ~log[p][i - 1].ok
                   /\ log[p][i - 2].e = "resolve"
                   /\ log[p][i - 2].n = log[p][i].n - 1
                   /\ log[p][i - 2].code = log[p][i - 1].code

\* C6: a second request is outstanding.
C6_Witness ==
    \E r \in Outstanding(Caller) : requests[r].attempt = 2

\* C7: one execution sends at most MAX_FIX_ATTEMPTS requests to the assistant.
C7_RequestBudget ==
    /\ \A p \in Procs : Cardinality(EventsOf(p, "request")) <= MAX_FIX_ATTEMPTS
    /\ Len(outbox) <= MAX_FIX_ATTEMPTS

\* C7: the budget is used up and the execution has returned.
C7_Witness == Done(Caller) /\ Len(outbox) = MAX_FIX_ATTEMPTS

\* C8: when request k resolves with no fix, the execution returns at once:
\* success = false, fixedCode the candidate sent in request k, attempts = k, the
\* error "LLM failed to provide a fix", and nothing is sent or validated after.
C8_NullTerminal ==
    \A p \in Procs : \A i \in EventsOf(p, "resolve") :
        Falsy(log[p][i].code) =>
            /\ i = Len(log[p])
            /\ log[p][i - 1].e = "request" /\ log[p][i - 1].n = log[p][i].n
            /\ Done(p)
            /\ Res(p) = [success |-> FALSE, fixedCode |-> log[p][i - 1].code,
                         error |-> ErrNoFix, attempts |-> log[p][i].n]

\* C8: the second request resolved with no fix.
C8_Witness ==
    \E i \in EventsOf(Caller, "resolve") : Falsy(log[Caller][i].code) /\ log[Caller][i].n = 2

\* C9: when request k is rejected the execution returns at once: success = false,
\* fixedCode the current best candidate, attempts = k, error the rejection
\* message; a timeout's message contains "timed out".
C9_RejectTerminal ==
    \A p \in Procs : \A i \in EventsOf(p, "reject") :
        LET r == Awaited(requests, p) IN
        /\ i = Len(log[p])
        /\ log[p][i - 1].e = "request" /\ log[p][i - 1].n = log[p][i].n
        /\ Done(p)
        /\ requests[r].state = "rejected"
        /\ Res(p) = [success |-> FALSE, fixedCode |-> log[p][i - 1].code,
                     error |-> requests[r].value, attempts |-> requests[r].attempt]
        /\ Res(p).fixedCode = LastValidated(p).code
        /\ (requests[r].via = "timeout" => Contains(Res(p).error, <<"timed out">>))
        /\ (requests[r].via = "response" => Res(p).error \in {ErrHost, ErrLLMFixFailed})

\* C9: the first request timed out.
C9_Witness ==
    /\ Done(Caller) /\ Res(Caller).attempts = 1
    /\ requests[Awaited(requests, Caller)].via = "timeout"

\* C10: if the validator accepts applyDeterministicFixes(code), autoFixSyntax(code)
\* returns success with that text and attempts = 0, and sends no request.
C10_CheapPath ==
    \A p \in Procs :
        Len(log[p]) >= 2 =>
            /\ log[p][2].e = "validate"
            /\ log[p][2].code = applyDeterministicFixes(CalledWith(p))
            /\ log[p][2].ok =>
                   /\ Done(p)
                   /\ Res(p) = [success |-> TRUE,
                                fixedCode |-> applyDeterministicFixes(CalledWith(p)),
                                error |-> Undefined, attempts |-> 0]
                   /\ EventsOf(p, "request") = {}
                   /\ Len(log[p]) = 2

\* C10: "A--&gt;B" was repaired by the deterministic pass alone.
C10_Witness ==
    /\ Done(Caller) /\ CalledWith(Caller) = sEnc
    /\ Res(Caller).success /\ Res(Caller).fixedCode = sArr /\ outbox = <<>>

\* C11: the text handed to the validator after request k resolved is
\* applyDeterministicFixes of the correction that request k returned.
C11_Renormalized ==
    \A p \in Procs : \A i \in EventsOf(p, "validate") :
        (i > 1 /\ log[p][i - 1].e = "resolve") =>
            log[p][i].code = applyDeterministicFixes(log[p][i - 1].code)

\* The corrections execution p received, in order.
Corrections(p) == SelectSeq(log[p], LAMBDA ev : ev.e = "resolve" /\ ~Falsy(ev.code))

\* The validator rejected every candidate of execution p and the assistant
\* returned a correction for every request.
AllRejected(p) ==
    /\ Done(p)
    /\ \A i \in EventsOf(p, "validate") : ~log[p][i].ok
    /\ EventsOf(p, "reject") = {}
    /\ \A i \in EventsOf(p, "resolve") : ~Falsy(log[p][i].code)

Settled == {r \in 1..Len(requests) : requests[r].state # "pending"}

\* C13: a request whose promise has settled, by a success response, a failure
\* response or the timeout, has no listener registered and no timer pending.
C13_Released ==
    \A r \in Settled : ~requests[r].listening /\ ~requests[r].timer

\* C13: one request was settled by a response and another by its timeout.
C13_Witness ==
    /\ \E r \in Settled : requests[r].via = "response" /\ requests[r].state = "resolved"
    /\ \E r \in Settled : requests[r].via = "timeout"

\* A pending request has its timer running and its deadline not behind it; a
\* request settled by the timeout was rejected with the timeout error, at its
\* deadline; a request settled by a response has its timer cancelled and does not
\* carry the timeout error.
C14_Deadline ==
    \A r \in 1..Len(requests) :
        LET q == requests[r] IN
        /\ q.state = "pending" => q.timer /\ q.age < FIX_TIMEOUT + Quantum
        /\ q.via = "timeout" =>
               /\ q.state = "rejected" /\ q.value = ErrTimedOut
               /\ Contains(q.value, <<"timed out">>)
               /\ q.age >= FIX_TIMEOUT
        /\ q.via = "response" => ~q.timer /\ q.value # ErrTimedOut

\* A settled request stays as it settled.
C14_SettledOnce ==
    \A r \in 1..Len(requests) :
        requests[r].state # "pending" =>
            /\ Len(requests') >= r
            /\ requests'[r].state = requests[r].state
            /\ requests'[r].value = requests[r].value
            /\ requests'[r].via = requests[r].via

\* C14: a request with no matching response by its deadline (FIX_TIMEOUT) is
\* rejected with "LLM fix request timed out", and a request whose matching
\* response arrived before the deadline is never rejected with that error.
C14_ChannelTimeout == []C14_Deadline /\ [][C14_SettledOnce]_vars

\* C14: one request was answered before its deadline and another timed out.
C14_Witness ==
    /\ \E r \in Settled : /\ requests[r].via = "response"
                           /\ requests[r].age > 0 /\ requests[r].age < FIX_TIMEOUT
    /\ \E r \in Settled : requests[r].via = "timeout" /\ requests[r].age >= FIX_TIMEOUT

\* The requests that are pending with their listener registered.
Listening == {r \in 1..Len(requests) : requests[r].state = "pending" /\ requests[r].listening}

\* Message m is a fix response bearing the requestId of request r.
Matches(m, r) == m.type = "mermaidFixResponse" /\ m.requestId = requests[r].requestId

\* C15: a response bearing the requestId of a pending request resolves it with
\* the response's fixedCode when its success flag is set, and otherwise rejects
\* it with the response's error, or with "LLM fix failed" when it carries none.
C15_ResponseMapping ==
    /\ \A r \in Listening : \A m \in Messages :
           Matches(m, r) =>
               LET q == messageListener(Cur, r, m).requests[r] IN
               /\ q.via = "response"
               /\ IF m.success
                  THEN q.state = "resolved" /\ q.value = m.fixedCode
                  ELSE /\ q.state = "rejected"
                       /\ q.value = IF Falsy(m.error) THEN ErrLLMFixFailed ELSE m.error
    /\ \A r \in Settled :
           requests[r].via = "response" =>
               IF requests[r].state = "resolved"
               THEN requests[r].value \in FixTexts \cup {Undefined}
               ELSE requests[r].value \in {ErrHost, ErrLLMFixFailed}

\* C15: one request was resolved with a text and another rejected with the
\* default message.
C15_Witness ==
    /\ \E r \in Settled : /\ requests[r].via = "response" /\ requests[r].state = "resolved"
                           /\ requests[r].value = sArr
    /\ \E r \in Settled : /\ requests[r].via = "response" /\ requests[r].state = "rejected"
                           /\ requests[r].value = ErrLLMFixFailed

\* C16: a message of another type, or bearing another requestId, leaves a pending
\* request and everything else as they are: the request stays pending with its
\* listener registered and its timer running.
C16_UnmatchedIgnored ==
    \A m \in Messages :
        /\ \A r \in Listening : ~Matches(m, r) => messageListener(Cur, r, m) = Cur
        /\ (\A r \in Listening : ~Matches(m, r)) =>
               dispatch(Cur, Indexes(Len(requests)), m) = Cur

\* C16: a second request is pending, listening and timed, under another
\* requestId than the first, which a response had resolved.
C16_Witness ==
    \E r \in Listening : \E r0 \in Settled :
        /\ requests[r].timer /\ requests[r].attempt = 2
        /\ requests[r0].via = "response"
        /\ requests[r0].requestId # requests[r].requestId

\* C17: no two calls of requestLLMFix use the same requestId.
C17_UniqueIds ==
    \A r1, r2 \in 1..Len(requests) :
        r1 # r2 => requests[r1].requestId # requests[r2].requestId

\* ------------------------------------------------ claims on the block ----

Epochs == 0..MaxChanges

\* C5: the render cycles started while the authored source is unchanged call
\* autoFixSyntax at most once between them, so the assistant receives at most
\* the requests of one call from the automatic path.
C5_AtMostOnceFix ==
    \A e \in Epochs : autoCalls[e] <= 1 /\ autoSent[e] <= MAX_FIX_ATTEMPTS

\* C5: after an automatic fix, a later cycle for the same source failed to render
\* the auto-fixed candidate and showed the error without asking for a fix again.
C5_Witness ==
    /\ autoCalls[epoch] = 1 /\ autoSent[epoch] >= 1 /\ cycles >= 2
    /\ view.hasAutoFixed /\ ~Falsy(view.error)
    /\ \A p \in Procs : task[p].kind = "none"

\* The slots in which a render cycle starts in this step.
Started == {p \in Procs : task[p].kind = "none" /\ task'[p].kind = "cycle"}

\* A change of the source while the timer is pending starts no cycle and leaves
\* one timer pending, for the new source; a cycle starts only from the pending
\* timer, one per timer, with the source and the candidate of that moment.
C18_Step ==
    /\ (timer /\ propCode' # propCode) =>
           /\ timer' /\ Started = {}
           /\ view'.currentCode = propCode'
    /\ \A p \in Started :
           /\ timer /\ ~timer' /\ Started = {p}
           /\ propCode' = propCode
           /\ task'[p].code = propCode /\ task'[p].currentCode = view.currentCode
           /\ task'[p].epoch = epoch

Fixing == {p \in Procs : task[p].pc = "fix"}

\* C19: at most one execution of autoFixSyntax is in progress for the block, and
\* the fix button cannot start one while isFixing is set.
C19_MutualExclusion ==
    /\ Cardinality(Fixing) <= 1
    /\ (Fixing # {} => view.isFixing)

\* The fixes started for a source that has since changed, whose result reaches
\* the block in this step.
StaleResults == {p \in Fixing : task[p].code # propCode /\ task'[p].kind = "none"}

\* The fixes started for the present source whose result reaches the block in
\* this step.
FreshResults == {p \in Fixing : task[p].code = propCode /\ task'[p].kind = "none"}

\* C20: the late result of a fix started for a source that has since changed
\* does not set the candidate, the auto-fixed flag, the attempt count or the
\* error of the view.
C20_StaleDiscarded ==
    [][(StaleResults # {} /\ FreshResults = {}) =>
           /\ view'.currentCode = view.currentCode
           /\ view'.hasAutoFixed = view.hasAutoFixed
           /\ view'.fixAttempts = view.fixAttempts
           /\ view'.error = view.error]_vars

\* The one result of autoFixSyntax the block received in the last step, if any.
Got == delivered[1]
GotOne(kind) == Len(delivered) = 1 /\ Got.kind = kind

\* C21: when the automatic path's autoFixSyntax returns success = false, the
\* view shows the error of the fix outcome and takes the outcome's fixedCode as
\* its candidate.
C21_FailureSurfaced ==
    (GotOne("cycle") /\ ~Got.result.success) =>
        /\ view.error = Got.result.error
        /\ view.currentCode = Got.result.fixedCode

\* C22: every manual retry calls autoFixSyntax with the code prop, whatever the
\* view's candidate is.
C22_Step ==
    \A p \in Procs :
        (task[p].kind = "none" /\ task'[p].kind = "manual") =>
            /\ task'[p].code = propCode
            /\ fixer'[p].pc = "validate0"
            /\ fixer'[p].validating = applyDeterministicFixes(propCode)
IsFixOutcome(r) ==
    /\ r.success \in BOOLEAN
    /\ r.attempts \in 0..MAX_FIX_ATTEMPTS
    /\ r.fixedCode \in Strings
    /\ r.success => r.error = Undefined
    /\ ~r.success => ~Falsy(r.error)

\* C23: autoFixSyntax never throws or rejects: an execution only awaits,
\* or has returned a MermaidFixResult, whatever the validator threw and
\* however the request was answered or timed out.
C23_OutcomeOnly ==
    \A p \in Procs :
        /\ fixer[p].pc \in {"idle", "validate0", "validate", "await", "done"}
        /\ Done(p) => IsFixOutcome(Res(p))

\* C23: a call has returned a result after a success response that carried no
\* fixedCode.
C23_Witness ==
    \E p \in Procs :
        /\ Done(p)
        /\ Res(p).error = ErrNoFix
        /\ \E i \in EventsOf(p, "resolve") : Falsy(log[p][i].code)

\* The validateSyntax calls that have returned: (execution, position in its log).
Validations == UNION {{<<p, i>> : i \in EventsOf(p, "validate")} : p \in Procs}

\* C24: validateSyntax always returns: isValid = true when mermaid.parse
\* accepted the text, and otherwise isValid = false with the message of the
\* thrown Error, or "Unknown syntax error" when what was thrown is not an Error.
C24_ValidatorTotal ==
    \A x \in Validations :
        LET ev == log[x[1]][x[2]]
            thrown == parseMemo[ev.code]
        IN  /\ thrown \in ParseOutcomes
            /\ ev.ok = (thrown = "ok")
            /\ thrown = "ok" => ev.err = Undefined
            /\ thrown = "msg" => ev.err = ErrParse
            /\ thrown = "emptymsg" => ev.err = <<>>
            /\ thrown = "nonerror" => ev.err = ErrUnknownSyntax

\* C24: the validator has answered for a text on which mermaid.parse threw
\* something that is not an Error, and the execution went on to ask for a fix.
C24_Witness ==
    \E x \in Validations :
        LET ev == log[x[1]][x[2]] IN
        /\ parseMemo[ev.code] = "nonerror"
        /\ ~ev.ok /\ ev.err = ErrUnknownSyntax
        /\ EventsOf(x[1], "request") # {}

\* ------------------------------ applyDeterministicFixes alone (SpecPure) ----

\* Fragments of Mermaid text: the encoded arrow and its parts, other entities,
\* a bare bracket, white space, a line break and a letter.
Pieces ==
    {Pat, <<"-">>, <<"-", "-">>, <<"&", "g", "t", ";">>, <<"&">>, <<"g", "t", ";">>,
     <<">">>, <<"&", "a", "m", "p", ";">>, <<"&", "l", "t", ";">>, <<" ">>, <<"\n">>,
     <<"A">>}

\* The texts made of at most n fragments.
RECURSIVE Concats(_)
Concats(n) ==
    IF n = 0 THEN {<<>>}
    ELSE Concats(n - 1) \cup {p \o t : p \in Pieces, t \in Concats(n - 1)}

Inputs == Concats(MaxPieces)

\* applyDeterministicFixes is applied to a text, then to its own result.
Applications == 2

PInit ==
    /\ InitFixer /\ InitBlock(sEmpty) /\ NoRetry
    /\ rawText \in Inputs
    /\ fixedTexts = <<>>

\* applyDeterministicFixes(code), code being the input or the last result.
PApply ==
    /\ Len(fixedTexts) < Applications
    /\ LET code == IF fixedTexts = <<>> THEN rawText ELSE fixedTexts[Len(fixedTexts)] IN
       fixedTexts' = Append(fixedTexts, applyDeterministicFixes(code))
    /\ UNCHANGED <<fvars, parseMemo, propCode, view, svg, timer, task, renderMemo, epoch,
                   cycles, autoCalls, autoSent, delivered, rawText, retry>>

PNext == PApply

SpecPure == PInit /\ [][PNext]_vars

\* C25: applyDeterministicFixes(applyDeterministicFixes(x)) =
\* applyDeterministicFixes(x), and applyDeterministicFixes(x) = x when x holds
\* no "--&gt;" (the empty text included).
C25_Idempotent ==
    /\ Len(fixedTexts) >= 2 => fixedTexts[2] = fixedTexts[1]
    /\ (Len(fixedTexts) >= 1 /\ Occurrences(rawText, Pat) = {}) => fixedTexts[1] = rawText

\* C25: the function was applied twice to a text with two encoded arrows.
C25_Witness ==
    /\ Len(fixedTexts) = 2
    /\ Cardinality(Occurrences(rawText, Pat)) = 2
    /\ fixedTexts[1] # rawText

\* Where position i of x lands in the result: each occurrence that ends before
\* i made the text three characters shorter.
Landing(x, i) ==
    i - (Len(Pat) - Len(Arrow)) * Cardinality({o \in Occurrences(x, Pat) : o + Len(Pat) - 1 < i})

\* The positions of x that lie in no occurrence of "--&gt;".
Outside(x) ==
    {i \in 1..Len(x) : \A o \in Occurrences(x, Pat) : i < o \/ i > o + Len(Pat) - 1}

\* y is x with every "--&gt;" replaced by "-->" and every other character in
\* place.
ExactReplacement(x, y) ==
    /\ Len(y) = Len(x) - (Len(Pat) - Len(Arrow)) * Cardinality(Occurrences(x, Pat))
    /\ \A i \in Outside(x) : y[Landing(x, i)] = x[i]
    /\ \A o \in Occurrences(x, Pat) :
           SubSeq(y, Landing(x, o), Landing(x, o) + Len(Arrow) - 1) = Arrow
    /\ Occurrences(y, Pat) = {}

\* The number of occurrences of an entity, of white space or of a line break.
Count(text, part) == Cardinality(Occurrences(text, part))

\* C26: applyDeterministicFixes replaces every "--&gt;" by "-->" and leaves
\* every other character in place: "&amp;", "&lt;", a "&gt;" not preceded by
\* "--", white space and line breaks are unchanged, and no "--&gt;" is left.
C26_GlobalExact ==
    Len(fixedTexts) >= 1 =>
        LET x == rawText
            y == fixedTexts[1]
        IN  /\ ExactReplacement(x, y)
            /\ \A e \in {<<"&", "a", "m", "p", ";">>, <<"&", "l", "t", ";">>, <<" ">>,
                           <<"\n">>} : Count(y, e) = Count(x, e)
            /\ Count(y, <<"&", "g", "t", ";">>) =
                   Count(x, <<"&", "g", "t", ";">>) - Count(x, Pat)

\* C26: the function was applied to a text with two encoded arrows around a
\* "&gt;" that no "--" precedes.
C26_Witness ==
    /\ Len(fixedTexts) >= 1
    /\ rawText = Pat \o <<"&", "g", "t", ";">> \o Pat
    /\ fixedTexts[1] = Arrow \o <<"&", "g", "t", ";">> \o Arrow

\* Execution p returned after the validator rejected the initial candidate and
\* the first correction and accepted its third text, the second correction.
SecondAccepted(p) ==
    /\ Done(p)
    /\ Len(Corrections(p)) = 2
    /\ LET v == EventsOf(p, "validate") IN
       /\ Cardinality(v) = 3
       /\ \A i \in v : log[p][i].ok = (i = Max(v))

\* C27: when the validator rejects the initial candidate and the first
\* correction and accepts the second correction, the outcome is success = true,
\* attempts = 2 and fixedCode = applyDeterministicFixes(second correction).
C27_TwoAttemptSuccess ==
    \A p \in Procs :
        SecondAccepted(p) =>
            /\ Res(p).success
            /\ Res(p).attempts = 2
            /\ Res(p).fixedCode = applyDeterministicFixes(Corrections(p)[2].code)

\* C28: a change of the source sets isLoading, clears the error, sets the
\* candidate to the new source, clears the auto-fixed flag and sets the attempt
\* count to 0 in the same step, whatever the view was.
C28_Step ==
    propCode' # propCode =>
        /\ view'.isLoading
        /\ view'.error = Null
        /\ view'.currentCode = propCode'
        /\ ~view'.hasAutoFixed
        /\ view'.fixAttempts = 0
C28_SourceChangeReset == [][C28_Step]_vars

\* C28: the source has just changed while a fix was in progress: the view is
\* reset, no cycle has run for the new source yet.
C28_Witness ==
    /\ epoch = 1 /\ cycles = 0 /\ timer
    /\ view.isFixing /\ Fixing # {}
    /\ view.isLoading /\ view.error = Null /\ view.currentCode = propCode
    /\ ~view.hasAutoFixed /\ view.fixAttempts = 0
    /\ \A p \in Fixing : task[p].code # propCode

\* The render cycles that call autoFixSyntax in this step.
AutoFixing == {p \in Procs : task'[p].kind = "cycle" /\ task'[p].pc = "fix" /\
                              ~(task[p].kind = "cycle" /\ task[p].pc = "fix")}

\* The cycle's own attempt on its candidate has just failed.
AttemptFailed(p) ==
    /\ task[p].kind = "cycle"
    /\ \/ task[p].pc = "parse" /\ parseMemo'[task[p].currentCode] \notin {"?", "ok"}
       \/ /\ task[p].pc = "render"
          /\ parseMemo[task[p].currentCode] = "ok"
          /\ renderMemo'[task[p].currentCode] \notin {"?", "ok"}

\* C29: a render cycle calls autoFixSyntax only after its own parse/render of
\* the candidate has failed, and only when the candidate equals the authored
\* source and the auto-fixed flag is clear.
C29_Step ==
    \A p \in AutoFixing :
        /\ AttemptFailed(p)
        /\ view.currentCode = propCode
        /\ ~view.hasAutoFixed
C29_RenderBeforeFix == [][C29_Step]_vars

\* ------------------------------------- the block under fair scheduling ----

\* A pending debounce timer fires after its delay.
RFairness == WF_vars(RDebounceFire)

SpecRenderLive == SpecRender /\ RFairness

\* C30 as stated: when the automatic path's autoFixSyntax returns success, the
\* candidate is the outcome's fixedCode and the block is marked auto-fixed.
C30_SuccessApplied ==
    (GotOne("cycle") /\ Got.result.success) =>
        /\ view.currentCode = Got.result.fixedCode
        /\ view.hasAutoFixed

\* The outcome's fixedCode is a text other than the candidate of the cycle.
FixChanged(d) == ~Falsy(d.result.fixedCode) /\ d.result.fixedCode # d.started

\* What the block does with a success of the automatic path.
C30_Applied ==
    (GotOne("cycle") /\ Got.result.success) =>
        IF FixChanged(Got)
        THEN /\ view.currentCode = Got.result.fixedCode
             /\ view.hasAutoFixed
             /\ view.fixAttempts = Got.result.attempts
             /\ view.error = Got.before.error
             /\ Got.result.fixedCode # Got.before.currentCode => timer
        ELSE /\ view.error = Got.errorMessage
             /\ view.currentCode = Got.before.currentCode
             /\ view.hasAutoFixed = Got.before.hasAutoFixed

\* A render cycle has started on candidate c.
Attempting(c) ==
    \E p \in Procs : task[p].kind = "cycle" /\ task[p].pc = "parse" /\ task[p].currentCode = c

\* C30 amended: when the automatic path's autoFixSyntax returns success with a
\* fixedCode that differs from the cycle's candidate, the candidate becomes
\* fixedCode, the block is marked auto-fixed, no error is set and a render is
\* scheduled; a scheduled render of a candidate is eventually attempted unless
\* the candidate is replaced first.  A success with an unchanged fixedCode shows
\* the cycle's error and does not mark the block.
C30_Rerender ==
    /\ []C30_Applied
    /\ \A c \in Strings :
           (timer /\ view.currentCode = c) ~> (Attempting(c) \/ view.currentCode # c)

\* C30: a success of the automatic path with a changed fixedCode has just been
\* applied and the render of the new candidate is scheduled.
C30_Witness ==
    /\ GotOne("cycle") /\ Got.result.success /\ FixChanged(Got)
    /\ Got.result.attempts > 0
    /\ view.currentCode = Got.result.fixedCode /\ view.hasAutoFixed
    /\ timer

\* ------------------------------------------- more claims on the fixer ----

\* The messages execution p posted, and the validations it got back, in order.
Sent(p) == SelectSeq(outbox, LAMBDA m : m.from = p)
Verdicts(p) == SelectSeq(log[p], LAMBDA ev : ev.e = "validate")
Calls(p) == SelectSeq(requests, LAMBDA q : q.owner = p)

\* Message k of execution p has the shape of a request and follows the k-th
\* validation, which rejected the text the message carries.
RequestShape(p, k) ==
    LET m == Sent(p)[k] IN
    /\ m.type = "fixMermaidSyntax"
    /\ m.requestId \in RequestIds
    /\ m.requestId = Calls(p)[k].requestId
    /\ Len(Verdicts(p)) >= k
    /\ ~Verdicts(p)[k].ok
    /\ m.text = Verdicts(p)[k].code
    /\ m.values.attempt = k
    /\ m.values.maxAttempts = 2

\* C31 as stated: each call of requestLLMFix posts one message, and request k of
\* an execution carries a requestId, the text just found invalid, the error
\* text of that validation, attempt = k and maxAttempts = 2.
C31_RequestContent ==
    \A p \in Procs :
        /\ Len(Sent(p)) = Len(Calls(p))
        /\ \A k \in 1..Len(Sent(p)) :
               /\ RequestShape(p, k)
               /\ Sent(p)[k].values.error = Verdicts(p)[k].err

\* C31 amended: as above, the error being that of the validation when it is not
\* empty, and otherwise "Unknown syntax error" for request 1 and "Unknown
\* validation error" for the later ones.
C31_RequestContentOrDefault ==
    \A p \in Procs :
        /\ Len(Sent(p)) = Len(Calls(p))
        /\ \A k \in 1..Len(Sent(p)) :
               /\ RequestShape(p, k)
               /\ Sent(p)[k].values.error =
                      OrElse(Verdicts(p)[k].err,
                             IF k = 1 THEN ErrUnknownSyntax ELSE ErrUnknownValidation)

\* C31: an execution has sent its second request, for a correction the
\* validator rejected with a message.
C31_Witness ==
    \E p \in Procs :
        /\ Len(Sent(p)) = 2
        /\ Sent(p)[2].values.attempt = 2
        /\ Sent(p)[2].text # Sent(p)[1].text
        /\ Sent(p)[2].values.error = ErrParse

\* A settled request is released, and cleanup ran once for it and never for a
\* pending one.
C32_CleanedOnce ==
    \A r \in 1..Len(requests) :
        LET q == requests[r] IN
        /\ q.cleanups = IF q.state = "pending" THEN 0 ELSE 1
        /\ q.state # "pending" => ~q.listening /\ ~q.timer

\* No message that matches a settled request, and no step at all, changes the
\* request: its outcome, its listener, its timer, its count of cleanups.
C32_Frozen ==
    \A r \in Settled :
        /\ Len(requests') >= r /\ requests'[r] = requests[r]
        /\ \A m \in Messages :
               Matches(m, r) => dispatch(Cur, Indexes(Len(requests)), m).requests[r] = requests[r]

\* C32: a request settles at most once and its cleanup runs exactly once; a
\* second response with its requestId, or a matching response after its timeout
\* fired, changes neither its outcome nor its listener or timer.
C32_ExactlyOnce == []C32_CleanedOnce /\ [][C32_Frozen]_vars

\* C32: a request was rejected by its timeout, its cleanup has run once, and the
\* execution has returned, so that any matching response is late.
C32_Witness ==
    \E r \in Settled :
        /\ requests[r].via = "timeout" /\ requests[r].cleanups = 1
        /\ Done(requests[r].owner)
        /\ \E m \in Messages : Matches(m, r) /\ m.success

\* The texts validateSyntax was called with and has answered for.
Judged == UNION {{Verdicts(p)[i].code : i \in 1..Len(Verdicts(p))} : p \in Procs}

\* C33: validateSyntax(code) hands code unchanged to mermaid.parse: the parser
\* has been asked about exactly the texts the validator was given, and each
\* verdict is the parser's verdict on that very text.
C33_ExactCandidate ==
    /\ {t \in Strings : parseMemo[t] # "?"} = Judged
    /\ \A p \in Procs : \A i \in 1..Len(Verdicts(p)) :
           Verdicts(p)[i].ok = (parseMemo[Verdicts(p)[i].code] = "ok")

\* C33: the validator was given a text with an encoded arrow and accepted it
\* on the parser's verdict for that text; the decoded text was never parsed.
C33_Witness ==
    /\ sEnc \in Judged
    /\ parseMemo[sEnc] = "ok"
    /\ parseMemo[sArr] = "?"

\* ------------------------------------------------ withRetry (SpecRetry) ----

\* The delays a method is wrapped with; 1000 is the default.
Delays == {0, 1000}

WInit == InitFixer /\ InitBlock(sEmpty) /\ NoText /\ NoRetry

WFrame ==
    UNCHANGED <<fvars, parseMemo, propCode, view, svg, timer, task, renderMemo, epoch,
                cycles, autoCalls, autoSent, delivered, rawText, fixedTexts>>

\* A method wrapped by withRetry(maxRetries, delayMs, shouldRetry?) is called.
WCall ==
    \E maxRetries \in (-1)..MaxRetries, delayMs \in Delays, hasShouldRetry \in BOOLEAN :
        /\ retry.pc = "idle"
        /\ retry' = withRetry(maxRetries, delayMs, hasShouldRetry)
        /\ WFrame

\* The original method returns a value.
WReturn ==
    \E value \in RetryValues :
        /\ retry.pc = "call"
        /\ retry' = originalReturned(retry, value)
        /\ WFrame

\* The original method throws.
WThrow ==
    \E error \in RetryErrors :
        /\ retry.pc = "call"
        /\ retry' = originalThrew(retry, error)
        /\ WFrame

\* The backoff delay is over.
WWake ==
    /\ retry.pc = "sleep"
    /\ retry' = sleepResolved(retry)
    /\ WFrame

WNext == WCall \/ WReturn \/ WThrow \/ WWake

SpecRetry == WInit /\ [][WNext]_vars

\* The wrapper was given a predicate that refuses the error.
Refused(error) == retry.hasShouldRetry /\ ~shouldRetry(error)

\* C34: with maxRetries >= 1 the wrapper invokes the original method at most
\* maxRetries times, returns the result of the first invocation that succeeds,
\* rethrows at once when shouldRetry is given and refuses the error, and after
\* maxRetries failures throws the last error.
C34_RetryWrapper ==
    (retry.pc # "idle" /\ retry.maxRetries >= 1) =>
        LET n == Len(retry.errors) IN
        /\ retry.calls <= retry.maxRetries
        /\ \A j \in 1..(n - 1) : ~Refused(retry.errors[j])
        /\ retry.pc = "returned" =>
               /\ retry.calls = n + 1
               /\ retry.result \in RetryValues
        /\ (n >= 1 /\ Refused(retry.errors[n])) =>
               /\ retry.pc = "threw" /\ retry.thrown = retry.errors[n]
               /\ retry.calls = n
        /\ n = retry.maxRetries =>
               retry.pc = "threw" /\ retry.thrown = retry.errors[n]
        /\ retry.pc = "threw" =>
               /\ retry.thrown = retry.errors[n]
               /\ Refused(retry.errors[n]) \/ n = retry.maxRetries

\* C34: wrapped with maxRetries = 3 and a predicate, the method failed three
\* times with a retried error, two delays in between, and the last error was
\* thrown.
C34_Witness ==
    /\ retry.pc = "threw" /\ retry.maxRetries = 3 /\ retry.hasShouldRetry
    /\ retry.calls = 3 /\ Len(retry.slept) = 2
    /\ retry.thrown = Transient

\* C40: for every maxRetries, 0 and negative values included, the wrapper
\* returns only the result of an invocation of the original method that
\* succeeded, or throws its error; it never resolves without invoking it.
C40_NeverSilent ==
    /\ retry.pc = "returned" => retry.calls >= 1 /\ retry.result \in RetryValues
    /\ retry.pc = "threw" => retry.calls >= 1 /\ retry.thrown \in RetryErrors

\* ------------------------------------ one caller, fair (SpecLive) ----

\* Every validateSyntax call returns, and a request that no response settles has
\* its timeout fire.
Fairness == WF_vars(FxValidated) /\ WF_vars(FxTimeout)

SpecLive == Spec /\ Fairness

\* C35: every execution of autoFixSyntax returns a result, after at most
\* MAX_FIX_ATTEMPTS + 1 validations.
C35_Terminates ==
    /\ [](\A p \in Procs : Len(Verdicts(p)) <= MAX_FIX_ATTEMPTS + 1)
    /\ \A p \in Procs : (fixer[p].pc # "idle") ~> Done(p)

\* C35: an execution has returned after MAX_FIX_ATTEMPTS + 1 validations, all
\* of them rejections.
C35_Witness ==
    \E p \in Procs :
        /\ Done(p) /\ ~Res(p).success
        /\ Len(Verdicts(p)) = MAX_FIX_ATTEMPTS + 1


\* ------------------------------------------------------------------ C36 ----

\* C36: in every outcome autoFixSyntax returns, attempts is the number of
\* requests that execution posted to the assistant channel.
C36_AttemptsCountRequests ==
    \A p \in Procs : Done(p) => Res(p).attempts = Len(Sent(p))

\* Both requests were sent, both corrections were refused by the validator, and
\* the execution returned the outcome after the loop.
C36_Witness ==
    \E p \in Procs :
        /\ Done(p) /\ ~Res(p).success
        /\ Len(Sent(p)) = MAX_FIX_ATTEMPTS
        /\ Len(Verdicts(p)) = MAX_FIX_ATTEMPTS + 1
        /\ Res(p).attempts = MAX_FIX_ATTEMPTS

\* ------------------------------------------------------- C37, C38, C39 ----

\* No render cycle and no fix is running, and no debounced cycle is pending.
Quiescent == ~timer /\ \A p \in Procs : task[p].kind = "none"

\* The diagram is shown and there is no error.
Rendered == ~Falsy(svg) /\ view.error = Null

\* The view holds an error.
InError == view.error # Null

\* C37: with every cycle and fix completed and no cycle pending, the view is in
\* exactly one of Rendered and Error, with isLoading and isFixing both false.
C37_Settles ==
    Quiescent => /\ Rendered # InError
                 /\ ~view.isLoading
                 /\ ~view.isFixing

\* C38: with every cycle and fix completed and no cycle pending, isLoading is
\* false.
C38_LoadingCleared == Quiescent => ~view.isLoading

\* C39: isFixing is true exactly when an autoFixSyntax call made by the block
\* has not returned.
C39_FixingTracksFix == view.isFixing = (Fixing # {})
====
